---------------------------- MODULE Spec2Model ----------------------------
(***************************************************************************)
(* A model of src/bitstring.py: the BitString / Genetic / ProbOpt class    *)
(* chain (local search state, population, MIMIC dependency-tree model)     *)
(* and the fitness evaluators OneMax, FlipFlop and FourPeaks.              *)
(*                                                                         *)
(* Conventions.  Python positions are 0-based and are kept 0-based here;   *)
(* a Python list or array is a TLA+ sequence and At(s, i) reads position   *)
(* i.  A real number is an exact fraction [num, den]; den = 0 encodes the  *)
(* NaN that numpy produces for 0/0.  The exception a call raises is kept   *)
(* in the variable raised ("" when the call returned normally).            *)
(***************************************************************************)
EXTENDS Integers, Sequences, FiniteSets, TLC

\* ------------------------------------------------------------- bounds
\* Largest declared bitstring length of the BitString/Genetic/ProbOpt objects.
MaxLen == 3
\* Largest number of rows of a population.
MaxPop == 3

VARIABLES
    length,       \* self.length
    fitness_fn,   \* self.fitness_fn (the name of the evaluator class)
    state,        \* self.state
    fitness,      \* self.fitness
    neighbors,    \* self.neighbors
    population,   \* self.population
    pop_fitness,  \* self.pop_fitness
    probs,        \* self.probs
    probs_ndim,   \* self.probs.ndim: 2 for a table, 1 for a vector or a list
    keep_sample,  \* self.keep_sample
    parent,       \* self.parent
    called,       \* name of the last operation called ("__init__" at first)
    arg,          \* the argument the last operation was called with
    raised,       \* the exception the last operation raised, "" if none
    best,         \* value returned by the last best_neighbor call
    rand_sample,  \* generate_new_sample: the matrix of uniform draws
    new_sample,   \* generate_new_sample: the returned matrix
    sample_order, \* find_sample_order: local sample_order
    last,         \* find_sample_order: local last
    pc            \* find_sample_order: position in the function

vars == <<length, fitness_fn, state, fitness, neighbors, population,
          pop_fitness, probs, probs_ndim, keep_sample, parent, called, arg,
          raised,
          best, rand_sample, new_sample, sample_order, last, pc>>

\* ------------------------------------------------------------ helpers
\* s[i] for a 0-based position i.
At(s, i) == s[i + 1]

\* The positions range(n) = 0..n-1.
Range(n) == 0 .. (n - 1)

\* All 0/1 vectors of length n.
BitVectors(n) == [1 .. n -> {0, 1}]

\* All sequences over S of length lo..hi.
SeqsOf(S, lo, hi) == UNION {[1 .. n -> S] : n \in lo .. hi}

RECURSIVE SumSeq(_)
\* sum(s) / np.sum(s) for a sequence of integers.
SumSeq(s) == IF s = <<>> THEN 0 ELSE Head(s) + SumSeq(Tail(s))

\* The largest element of a non-empty set of integers.
MaxOf(S) == CHOOSE x \in S : \A y \in S : y <= x

\* The smallest element of a non-empty set of integers.
MinOf(S) == CHOOSE x \in S : \A y \in S : x <= y

\* np.argmax(s): the first 0-based position holding the maximum.
ArgMax(s) == MinOf({i \in Range(Len(s)) : \A j \in Range(Len(s)) : At(s, j) <= At(s, i)})

\* np.argmin(s): the first 0-based position holding the minimum.
ArgMin(s) == MinOf({i \in Range(Len(s)) : \A j \in Range(Len(s)) : At(s, i) <= At(s, j)})

\* The fraction n/d.
Frac(n, d) == [num |-> n, den |-> d]

\* a < b for fractions with positive denominators.
FracLT(a, b) == a.num * b.den < b.num * a.den

\* a = b as numbers, for fractions with positive denominators.
FracEQ(a, b) == a.num * b.den = b.num * a.den

\* ---------------------------------------------------------- evaluators
\* OneMax.evaluate: sum(bitstring).
OneMax(bitstring) == SumSeq(bitstring)

\* FlipFlop.evaluate: the number of positions that differ from their predecessor.
FlipFlop(bitstring) ==
    Cardinality({i \in 1 .. (Len(bitstring) - 1) : At(bitstring, i) # At(bitstring, i - 1)})

\* head(b, x): the number of leading b's in x.
head(b, x) ==
    IF \A i \in Range(Len(x)) : At(x, i) = b THEN Len(x)
    ELSE MinOf({i \in Range(Len(x)) : At(x, i) # b})

\* tail(b, x): the number of trailing b's in x.
tail(b, x) ==
    IF \A i \in Range(Len(x)) : At(x, i) = b THEN Len(x)
    ELSE MinOf({i \in Range(Len(x)) : At(x, Len(x) - i - 1) # b})

\* FourPeaks.evaluate with the default t_pct = 0.1: t = ceil(0.1 * n).
FourPeaks(bitstring) ==
    LET n == Len(bitstring)
        t == (n + 9) \div 10
        tail_0 == tail(0, bitstring)
        head_1 == head(1, bitstring)
        r == IF tail_0 > t /\ head_1 > t THEN n ELSE 0
    IN  (IF tail_0 >= head_1 THEN tail_0 ELSE head_1) + r

\* The evaluator classes of the repository that the model instantiates.
FitnessFns == {"OneMax", "FlipFlop", "FourPeaks"}

\* self.fitness_fn.evaluate(bitstring), dispatched on the evaluator's class.
evaluate(fn, bitstring) ==
    CASE fn = "OneMax" -> OneMax(bitstring)
      [] fn = "FlipFlop" -> FlipFlop(bitstring)
      [] fn = "FourPeaks" -> FourPeaks(bitstring)

\* Mutant of calculate_fitness: the stored fitness is handed back instead of
\* the evaluator being asked.
calculate_fitness_stale(bitstring) == fitness

\* BitString.calculate_fitness.
calculate_fitness(bitstring) == evaluate(fitness_fn, bitstring)

\* ------------------------------------------------------------ BitString
\* The attributes BitString.__init__ sets, for a given length and evaluator.
BitStringInit(len, fn) ==
    /\ length = len
    /\ fitness_fn = fn
    /\ state = [i \in 1 .. len |-> 0]
    /\ neighbors = <<>>
    /\ fitness = 0

\* The attributes Genetic.__init__ adds.
GeneticInit ==
    /\ population = <<>>
    /\ pop_fitness = <<>>

\* np.zeros([2, n]) as a table of fractions.
Zeros2(n) == [j \in 1 .. 2 |-> [i \in 1 .. n |-> Frac(0, 1)]]

\* The variables that are not attributes: no call made yet, no locals live.
NoCallYet ==
    /\ called = "__init__"
    /\ arg = <<>>
    /\ raised = ""
    /\ best = <<>>
    /\ rand_sample = <<>>
    /\ new_sample = <<>>
    /\ sample_order = <<>>
    /\ last = <<>>
    /\ pc = "idle"

\* Variables only the ProbOpt part writes.
probOptVars == <<keep_sample, parent, rand_sample, new_sample, sample_order, last, pc>>

\* Variables only the Genetic part writes (probs is shared with ProbOpt).
geneticVars == <<population, pop_fitness>>

\* BitString.reset: a random bitstring (any of the 2^length), and its fitness.
reset ==
    \E s \in BitVectors(length) :
        /\ state' = s
        /\ fitness' = calculate_fitness(s)
        /\ called' = "reset"
        /\ arg' = <<>>
        /\ raised' = ""
        /\ UNCHANGED <<length, fitness_fn, neighbors, best, probs, probs_ndim>>
        /\ UNCHANGED geneticVars
        /\ UNCHANGED probOptVars

\* BitString.set_state(new_bitstring): stores the vector as given and evaluates it.
set_state(new_bitstring) ==
    /\ state' = new_bitstring
    /\ fitness' = calculate_fitness(new_bitstring)
    /\ called' = "set_state"
    /\ arg' = new_bitstring
    /\ raised' = ""
    /\ UNCHANGED <<length, fitness_fn, neighbors, best, probs, probs_ndim>>
    /\ UNCHANGED geneticVars
    /\ UNCHANGED probOptVars

\* Mutant of Flip: the np.abs is dropped, so a 0 bit becomes -1.
Flip_no_abs(s, i) == [s EXCEPT ![i + 1] = s[i + 1] - 1]

\* One neighbor of find_neighbors' loop: a copy of s with position i flipped.
Flip(s, i) == [s EXCEPT ![i + 1] = IF s[i + 1] - 1 < 0 THEN 1 - s[i + 1] ELSE s[i + 1] - 1]

\* The list find_neighbors builds for a state s of an object of length len.
NeighborsOf(s, len) == [k \in 1 .. len |-> Flip(s, k - 1)]

\* BitString.find_neighbors.  A state shorter than length makes neighbor[i]
\* an IndexError once i reaches len(state); the neighbors appended so far stay.
find_neighbors ==
    /\ called' = "find_neighbors"
    /\ arg' = <<>>
    /\ IF Len(state) >= length
       THEN /\ neighbors' = NeighborsOf(state, length)
            /\ raised' = ""
       ELSE /\ neighbors' = NeighborsOf(state, Len(state))
            /\ raised' = "IndexError"
    /\ UNCHANGED <<length, fitness_fn, state, fitness, best, probs, probs_ndim>>
    /\ UNCHANGED geneticVars
    /\ UNCHANGED probOptVars

\* best_neighbor's fitness_list: the evaluator on each stored neighbor.
FitnessList(ns) == [k \in 1 .. Len(ns) |-> evaluate(fitness_fn, ns[k])]

\* BitString.best_neighbor: np.argmax of an empty list raises ValueError.
best_neighbor ==
    /\ called' = "best_neighbor"
    /\ arg' = <<>>
    /\ IF neighbors = <<>>
       THEN /\ raised' = "ValueError"
            /\ best' = <<>>
       ELSE /\ raised' = ""
            /\ best' = At(neighbors, ArgMax(FitnessList(neighbors)))
    /\ UNCHANGED <<length, fitness_fn, state, fitness, neighbors, probs, probs_ndim>>
    /\ UNCHANGED geneticVars
    /\ UNCHANGED probOptVars

\* A BitString object after construction.
InitBitString ==
    /\ \E len \in 1 .. MaxLen, fn \in FitnessFns : BitStringInit(len, fn)
    /\ GeneticInit
    /\ probs = <<>>
    /\ probs_ndim = 1
    /\ keep_sample = <<>>
    /\ parent = <<>>
    /\ NoCallYet

\* The operations of a BitString object; set_state is given vectors of the
\* declared length.
NextBitString ==
    \/ reset
    \/ \E b \in BitVectors(length) : set_state(b)
    \/ find_neighbors
    \/ best_neighbor

SpecBitString == InitBitString /\ [][NextBitString]_vars

\* -------------------------------------------------------------- Genetic
\* Largest number of members of a population handed to a Genetic object.
MaxMembers == 2
\* Largest declared length of a Genetic object, and largest length of the
\* vectors handed to it.
MaxWidth == 2

\* The fitness of every member, as the loops of create_population and
\* set_population collect it.
PopFitness(pop) == [k \in 1 .. Len(pop) |-> calculate_fitness(pop[k])]

\* Genetic.create_population(pop_size): pop_size random bitstrings of the
\* declared length (any of them), each evaluated.
create_population(pop_size) ==
    \E pop \in [1 .. pop_size -> BitVectors(length)] :
        /\ population' = pop
        /\ pop_fitness' = PopFitness(pop)
        /\ called' = "create_population"
        /\ arg' = pop_size
        /\ raised' = ""
        /\ UNCHANGED <<length, fitness_fn, state, fitness, neighbors, best, probs, probs_ndim>>
        /\ UNCHANGED probOptVars

\* Genetic.set_population(new_population): stores the members as given and
\* evaluates each.
set_population(new_population) ==
    /\ population' = new_population
    /\ pop_fitness' = PopFitness(new_population)
    /\ called' = "set_population"
    /\ arg' = new_population
    /\ raised' = ""
    /\ UNCHANGED <<length, fitness_fn, state, fitness, neighbors, best, probs, probs_ndim>>
    /\ UNCHANGED probOptVars

\* pop_fitness / np.sum(pop_fitness): element-wise true division; a zero
\* total makes every quotient 0/0, which numpy stores as NaN (den = 0).
Normalized(fs) == [k \in 1 .. Len(fs) |-> Frac(fs[k], SumSeq(fs))]

\* Genetic.calculate_probs.  Before any population exists pop_fitness is the
\* constructor's Python list, and list / float raises TypeError.
calculate_probs ==
    /\ called' = "calculate_probs"
    /\ arg' = <<>>
    /\ IF pop_fitness = <<>>
       THEN /\ raised' = "TypeError"
            /\ probs' = probs
            /\ probs_ndim' = probs_ndim
       ELSE /\ raised' = ""
            /\ probs' = Normalized(pop_fitness)
            /\ probs_ndim' = 1
    /\ UNCHANGED <<length, fitness_fn, state, fitness, neighbors, best>>
    /\ UNCHANGED geneticVars
    /\ UNCHANGED probOptVars

\* A Genetic object after construction.
InitGenetic ==
    /\ \E len \in 1 .. MaxWidth, fn \in FitnessFns : BitStringInit(len, fn)
    /\ GeneticInit
    /\ probs = <<>>
    /\ probs_ndim = 1
    /\ keep_sample = <<>>
    /\ parent = <<>>
    /\ NoCallYet

\* The vectors a caller may hand over: 0/1 vectors of any length up to
\* MaxWidth, whatever the object's declared length.
AnyBitVectors == UNION {BitVectors(n) : n \in 1 .. MaxWidth}

\* The populations a caller may hand over: numpy matrices of 1..MaxMembers
\* rows, of any width up to MaxWidth.
AnyPopulations == UNION {SeqsOf(BitVectors(n), 1, MaxMembers) : n \in 1 .. MaxWidth}

\* The operations of a Genetic object that take bit vectors from outside or
\* derive the selection probabilities.
NextGenetic ==
    \/ \E b \in AnyBitVectors : set_state(b)
    \/ \E n \in 1 .. MaxMembers : create_population(n)
    \/ \E pop \in AnyPopulations : set_population(pop)
    \/ calculate_probs

SpecGenetic == InitGenetic /\ [][NextGenetic]_vars

\* -------------------------------------------------------------- ProbOpt
\* Column i of a matrix (a sequence of rows): keep_sample[:, i].
Column(K, i) == [r \in 1 .. Len(K) |-> At(K[r], i)]

\* x^n over the naturals, with 0^0 = 1.
Pow[x \in Nat, n \in Nat] == IF n = 0 THEN 1 ELSE x * Pow[x, n - 1]

\* x^x.
SelfPow[x \in Nat] == Pow[x, x]

\* The contingency count of mutual_info_score: the rows of K with value a in
\* column i and value b in column j.
Cell(K, i, j, a, b) == Cardinality({r \in 1 .. Len(K) : At(K[r], i) = a /\ At(K[r], j) = b})

\* The rows of K with value a in column i.
Marginal(K, i, a) == Cardinality({r \in 1 .. Len(K) : At(K[r], i) = a})

\* mutual_info_score(K[:, i], K[:, j]) is
\*   MI = sum_ab (n_ab/n) ln(n n_ab / (n_a n_b)),
\* so exp(n MI) = n^n MIJoint / MIMarginals with the two products below;
\* MI values of one sample are compared, and tested for zero, through them.
MIJoint(K, i, j) ==
    SelfPow[Cell(K, i, j, 0, 0)] * SelfPow[Cell(K, i, j, 0, 1)]
      * SelfPow[Cell(K, i, j, 1, 0)] * SelfPow[Cell(K, i, j, 1, 1)]

\* The product over the marginal counts of columns i and j.
MIMarginals(K, i, j) ==
    SelfPow[Marginal(K, i, 0)] * SelfPow[Marginal(K, i, 1)]
      * SelfPow[Marginal(K, j, 0)] * SelfPow[Marginal(K, j, 1)]

\* The pairs (i, j), i < j, that the double loop of update_probs visits.
Pairs(len) == {e \in Range(len) \X Range(len) : e[1] < e[2]}

\* For every pair of columns of K the two products that stand for its
\* mutual_info_score.
MIStats(K, len) ==
    [e \in Pairs(len) |-> [joint |-> MIJoint(K, e[1], e[2]), marginals |-> MIMarginals(K, e[1], e[2])]]

\* mutual_info_score = 0 for a pair with products st in a sample of n rows:
\* the two columns are independent.
MIZero(st, n) == SelfPow[n] * st.joint = st.marginals

\* mutual_info_score of a pair with products s <= that of a pair with t.
MILeq(s, t) == s.joint * t.marginals <= t.joint * s.marginals

\* -MI for every pair, given the pairs' products: a real -MI is coded by an
\* integer that keeps the order and the zeros of the reals, minus the number
\* of pairs whose non-zero MI is at most this one.
MICoded(stats, n, len) ==
    CHOOSE M \in
        {[i \in Range(len) |-> [j \in Range(len) |->
            IF <<i, j>> \in dependent
            THEN 0 - Cardinality({f \in dependent : MILeq(stats[f], stats[<<i, j>>])})
            ELSE 0]]
         : dependent \in {{e \in Pairs(len) : ~MIZero(stats[e], n)}}} : TRUE

\* The matrix mutual_info of update_probs: -MI above the diagonal, 0 elsewhere.
MutualInfo(K, len) == CHOOSE M \in {MICoded(stats, Len(K), len) : stats \in {MIStats(K, len)}} : TRUE

\* csr_matrix(M): the stored entries are the non-zero ones.
StoredEdges(M, len) == {e \in Range(len) \X Range(len) : M[e[1]][e[2]] # 0}

RECURSIVE Reach(_, _)
\* The nodes joined to a node of S by edges of E, taken as undirected.
Reach(E, S) ==
    LET more == {v \in UNION {{e[1], e[2]} : e \in E} :
                    \E e \in E : (e[1] \in S /\ e[2] = v) \/ (e[2] \in S /\ e[1] = v)}
    IN  IF more \subseteq S THEN S ELSE Reach(E, S \cup more)

\* T has no cycle: no edge joins two nodes the other edges already join.
IsForest(T) == \A e \in T : e[2] \notin Reach(T \ {e}, {e[1]})

\* The number of connected components E leaves among the len nodes.
Components(E, len) == Cardinality({Reach(E, {v}) : v \in Range(len)})

\* The spanning forests of E: the cycle-free subsets with one edge fewer than
\* nodes in every component of E.
SpanningForests(E, len) ==
    UNION {{T \in SUBSET E : Cardinality(T) = size /\ IsForest(T)}
           : size \in {len - Components(E, len)}}

RECURSIVE TotalWeight(_, _)
\* The sum of the weights M gives the edges of T.
TotalWeight(M, T) ==
    IF T = {} THEN 0
    ELSE LET e == CHOOSE e \in T : TRUE IN M[e[1]][e[2]] + TotalWeight(M, T \ {e})

\* minimum_spanning_tree(csr_matrix(M)): a spanning forest of the stored edges
\* of least total weight.  Which one scipy returns when weights tie depends
\* on its sort; every least-weight forest is a possible result.
MinimumSpanningTrees(M, len) ==
    UNION {UNION {{T \in forests : TotalWeight(M, T) = least}
                  : least \in {MinOf({TotalWeight(M, U) : U \in forests})}}
           : forests \in {SpanningForests(StoredEdges(M, len), len)}}

\* mst.toarray(): the chosen edges with their weights, 0 elsewhere.
ToArray(M, T, len) ==
    [i \in Range(len) |-> [j \in Range(len) |-> IF <<i, j>> \in T THEN M[i][j] ELSE 0]]

\* scipy marks a node that the traversal has not reached with this predecessor.
NoPredecessor == -9999

\* The neighbours of top among the stored edges of A, read in both
\* directions, that the traversal has neither entered nor has on its path.
Unvisited(A, len, top, stack, pred) ==
    {v \in Range(len) :
        /\ A[top][v] # 0 \/ A[v][top] # 0
        /\ pred[v] = NoPredecessor
        /\ \A k \in 1 .. Len(stack) : stack[k] # v}

RECURSIVE DepthFirst(_, _, _, _)
\* The predecessors of an undirected depth-first traversal of the stored
\* edges of A: stack is the path from the root to the current node, pred the
\* predecessors found so far.  The lowest unvisited neighbour is entered next.
DepthFirst(A, len, stack, pred) ==
    IF stack = <<>> THEN pred
    ELSE CHOOSE result \in
            {IF fresh = {} THEN DepthFirst(A, len, Tail(stack), pred)
             ELSE DepthFirst(A, len, <<MinOf(fresh)>> \o stack,
                             [pred EXCEPT ![MinOf(fresh)] = Head(stack)])
             : fresh \in {Unvisited(A, len, Head(stack), stack, pred)}} : TRUE

\* depth_first_tree(csr_matrix(A), 0, directed=False).toarray(): entry [p][v]
\* holds the weight of the edge between v and its predecessor p.
DepthFirstTree(A, len) ==
    CHOOSE dft \in
        {[i \in Range(len) |-> [j \in Range(len) |->
            IF pred[j] = i THEN (IF A[i][j] # 0 THEN A[i][j] ELSE A[j][i]) ELSE 0]]
         : pred \in {DepthFirst(A, len, <<0>>, [v \in Range(len) |-> NoPredecessor])}} : TRUE

\* Mutant of ParentOf: np.argmax in place of np.argmin.
ParentOf_argmax(dft, len) ==
    [k \in 1 .. (len - 1) |-> ArgMax([r \in 1 .. len |-> dft[r - 1][k]])]

\* np.argmin(dft[:, 1:], axis = 0): for each column 1..len-1 the first row
\* holding the column's minimum.
ParentOf(dft, len) ==
    [k \in 1 .. (len - 1) |-> ArgMin([r \in 1 .. len |-> dft[r - 1][k]])]

\* Mutant of Subset: the rows are not filtered by the parent's bit.
Subset_unfiltered(K, c, v) == K

\* The rows of K whose bit at position c equals v:
\* keep_sample[np.where(keep_sample[:, c] == v)[0]].
Subset(K, c, v) == SelectSeq(K, LAMBDA row : At(row, c) = v)

\* The table probs of update_probs for the sample K and the parent array par.
ProbsOf(K, par, len) ==
    [j \in 1 .. 2 |-> [i \in 1 .. len |->
        IF i = 1
        THEN (IF Len(K) = 0 THEN Frac(0, 1) ELSE Frac(SumSeq(Column(K, 0)), Len(K)))
        ELSE LET subset == Subset(K, At(par, (i - 1) - 1), j - 1)
                 count == SumSeq(Column(subset, i - 1))
             IN  IF Len(subset) = 0 THEN Frac(0, 1) ELSE Frac(count, Len(subset))]]

RECURSIVE Insert(_, _)
\* x put into the ascending sequence s at its place.
Insert(x, s) ==
    IF s = <<>> THEN <<x>>
    ELSE IF x <= Head(s) THEN <<x>> \o s
    ELSE <<Head(s)>> \o Insert(x, Tail(s))

RECURSIVE Sorted(_)
\* s in ascending order, as np.percentile orders its data.
Sorted(s) == IF s = <<>> THEN <<>> ELSE Insert(Head(s), Sorted(Tail(s)))

\* np.percentile(fs, 100 * (1 - keep_pct)) with linear interpolation, for a
\* non-empty fs: the value at the virtual index (1 - keep_pct) * (n - 1) of
\* the ordered data, as a fraction over keep_pct's denominator.
Percentile(fs, keep_pct) ==
    LET srt == Sorted(fs)
        h == (keep_pct.den - keep_pct.num) * (Len(fs) - 1)
        lo == h \div keep_pct.den
        rem == h % keep_pct.den
        hi == IF rem = 0 THEN lo ELSE lo + 1
    IN  Frac(At(srt, lo) * keep_pct.den + rem * (At(srt, hi) - At(srt, lo)), keep_pct.den)

\* The keep fractions select_keep_sample is called with.
KeepPcts == {Frac(1, 2), Frac(1, 1)}

\* Mutant of KeepSample: the members strictly above the threshold.
KeepSample_strict(pop, fs, theta) ==
    LET keep_inds == {k \in 1 .. Len(fs) : FracLT(theta, Frac(fs[k], 1))}
        RECURSIVE Take(_)
        Take(k) == IF k > Len(pop) THEN <<>>
                   ELSE (IF k \in keep_inds THEN <<pop[k]>> ELSE <<>>) \o Take(k + 1)
    IN  Take(1)

\* np.where(pop_fitness >= theta)[0], then population[keep_inds]: the members
\* at or above the threshold, in population order.
KeepSample(pop, fs, theta) ==
    LET keep_inds == {k \in 1 .. Len(fs) : ~FracLT(Frac(fs[k], 1), theta)}
        RECURSIVE Take(_)
        Take(k) == IF k > Len(pop) THEN <<>>
                   ELSE (IF k \in keep_inds THEN <<pop[k]>> ELSE <<>>) \o Take(k + 1)
    IN  Take(1)

\* ProbOpt.select_keep_sample(keep_pct).  Before any population exists
\* pop_fitness is the constructor's empty Python list: the percentile of no
\* data, or the comparison of a list with it, raises.
select_keep_sample(keep_pct) ==
    /\ called' = "select_keep_sample"
    /\ arg' = keep_pct
    /\ IF pop_fitness = <<>>
       THEN /\ raised' \in {"IndexError", "TypeError"}
            /\ keep_sample' = keep_sample
       ELSE /\ raised' = ""
            /\ keep_sample' = KeepSample(population, pop_fitness, Percentile(pop_fitness, keep_pct))
    /\ sample_order' = <<>>
    /\ last' = <<>>
    /\ UNCHANGED <<length, fitness_fn, state, fitness, neighbors, best, probs, probs_ndim>>
    /\ UNCHANGED <<parent, rand_sample, new_sample, pc>>
    /\ UNCHANGED geneticVars

\* What update_probs computes from the sample K: the parent array and the
\* table probs, one pair for each least-weight forest the minimum spanning
\* tree routine may return.
FittedModels(K, len) ==
    UNION {UNION {UNION {{[parent |-> par, probs |-> ProbsOf(K, par, len)]
                          : par \in {ParentOf(DepthFirstTree(tree, len), len)}}
                         : tree \in {ToArray(mutual_info, mst, len)}}
                  : mst \in MinimumSpanningTrees(mutual_info, len)}
           : mutual_info \in {MutualInfo(K, len)}}

\* ProbOpt.update_probs.  With keep_sample still the constructor's Python
\* list, the column slice keep_sample[:, i] of the first loop raises TypeError
\* (length 1 runs no such slice and stores the zero table).
update_probs ==
    /\ called' = "update_probs"
    /\ arg' = <<>>
    /\ IF keep_sample = <<>> /\ length >= 2
       THEN /\ raised' = "TypeError"
            /\ UNCHANGED <<probs, probs_ndim, parent>>
       ELSE /\ raised' = ""
            /\ \E model \in FittedModels(keep_sample, length) :
                  /\ probs' = model.probs
                  /\ probs_ndim' = 2
                  /\ parent' = model.parent
    /\ sample_order' = <<>>
    /\ last' = <<>>
    /\ UNCHANGED <<length, fitness_fn, state, fitness, neighbors, best>>
    /\ UNCHANGED <<keep_sample, rand_sample, new_sample, pc>>
    /\ UNCHANGED geneticVars

\* Mutant of ChildrenOf: np.where(parent == i)[0] without the + 1.
ChildrenOf_no_shift(par, i) ==
    LET RECURSIVE From(_)
        From(k) == IF k > Len(par) THEN <<>>
                   ELSE (IF par[k] = i THEN <<k - 1>> ELSE <<>>) \o From(k + 1)
    IN  From(1)

\* np.where(parent == i)[0] + 1 in ascending order: the positions whose
\* parent entry is i.
ChildrenOf(par, i) ==
    LET RECURSIVE From(_)
        From(k) == IF k > Len(par) THEN <<>>
                   ELSE (IF par[k] = i THEN <<k>> ELSE <<>>) \o From(k + 1)
    IN  From(1)

RECURSIVE Inds(_, _)
\* The list inds one pass of find_sample_order's while loop builds from last.
Inds(par, lst) == IF lst = <<>> THEN <<>> ELSE ChildrenOf(par, Head(lst)) \o Inds(par, Tail(lst))

\* find_sample_order(par) is entered: sample_order = [], last = [0].
find_sample_order_call(par) ==
    /\ pc = "idle"
    /\ pc' = "while"
    /\ sample_order' = <<>>
    /\ last' = <<0>>
    /\ called' = "find_sample_order"
    /\ arg' = par
    /\ raised' = ""
    /\ UNCHANGED <<length, fitness_fn, state, fitness, neighbors, best, probs, probs_ndim>>
    /\ UNCHANGED <<keep_sample, parent, rand_sample, new_sample>>
    /\ UNCHANGED geneticVars

\* Mutant of WhileCondition: the bound is one too large.
WhileCondition_off_by_one == Len(sample_order) < Len(arg) + 2

\* The condition of find_sample_order's while loop, for the argument arg.
WhileCondition == Len(sample_order) < Len(arg) + 1

\* One pass of the while loop: the children of last become the next last.
find_sample_order_pass ==
    /\ pc = "while"
    /\ WhileCondition
    /\ sample_order' = sample_order \o last
    /\ last' = Inds(arg, last)
    /\ UNCHANGED <<length, fitness_fn, state, fitness, neighbors, best, probs, probs_ndim>>
    /\ UNCHANGED <<keep_sample, parent, rand_sample, new_sample, pc>>
    /\ UNCHANGED <<called, arg, raised>>
    /\ UNCHANGED geneticVars

\* The loop condition fails: find_sample_order returns sample_order.
find_sample_order_return ==
    /\ pc = "while"
    /\ ~WhileCondition
    /\ pc' = "idle"
    /\ last' = <<>>
    /\ UNCHANGED <<length, fitness_fn, state, fitness, neighbors, best, probs, probs_ndim>>
    /\ UNCHANGED <<keep_sample, parent, rand_sample, new_sample, sample_order>>
    /\ UNCHANGED <<called, arg, raised>>
    /\ UNCHANGED geneticVars

\* The attributes ProbOpt.__init__ adds, for an object of length len.
ProbOptInit(len) ==
    /\ keep_sample = <<>>
    /\ probs = Zeros2(len)
    /\ probs_ndim = 2
    /\ parent = <<>>

\* A ProbOpt object after construction.
InitProbOpt ==
    /\ \E len \in 1 .. MaxLen, fn \in FitnessFns : BitStringInit(len, fn) /\ ProbOptInit(len)
    /\ GeneticInit
    /\ NoCallYet

\* The populations of 1..MaxPop members of the declared length.
Populations == SeqsOf(BitVectors(length), 1, MaxPop)

\* One generation of a ProbOpt object: a population is set once, then elite
\* selection, model fitting and the sample order run in any order and any
\* number of times; a call runs to its end before the next is made.
NextProbOpt ==
    \/ /\ pc = "idle"
       /\ population = <<>>
       /\ \E pop \in Populations : set_population(pop)
    \/ /\ pc = "idle"
       /\ \E keep_pct \in KeepPcts : select_keep_sample(keep_pct)
    \/ /\ pc = "idle"
       /\ update_probs
    \/ find_sample_order_call(parent)
    \/ find_sample_order_pass
    \/ find_sample_order_return

\* The loop of find_sample_order runs on: the program is single-threaded and
\* synchronous, so a call that can take a step takes it.
SpecProbOpt ==
    /\ InitProbOpt
    /\ [][NextProbOpt]_vars
    /\ WF_vars(find_sample_order_pass)
    /\ WF_vars(find_sample_order_return)

\* Largest number of rows of the elite sample a model is fitted to.
MaxElite == 2

\* A ProbOpt object of length len with the OneMax evaluator on which
\* set_population(K) and select_keep_sample(1.0) have run: the threshold is
\* the least fitness, so the elite sample is the whole population K.
Selected(len, K) ==
    /\ BitStringInit(len, "OneMax")
    /\ population = K
    /\ pop_fitness = [k \in 1 .. Len(K) |-> evaluate("OneMax", K[k])]
    /\ keep_sample = KeepSample(K, [k \in 1 .. Len(K) |-> evaluate("OneMax", K[k])],
                                Percentile([k \in 1 .. Len(K) |-> evaluate("OneMax", K[k])],
                                           Frac(1, 1)))
    /\ probs = Zeros2(len)
    /\ probs_ndim = 2
    /\ parent = <<>>
    /\ called = "select_keep_sample"
    /\ arg = Frac(1, 1)
    /\ raised = ""
    /\ best = <<>>
    /\ rand_sample = <<>>
    /\ new_sample = <<>>
    /\ sample_order = <<>>
    /\ last = <<>>
    /\ pc = "idle"

\* The elite sample is any sequence of 1..MaxElite bit vectors.
InitSelected ==
    \E len \in 1 .. MaxLen :
       \E K \in SeqsOf(BitVectors(len), 1, MaxElite) : Selected(len, K)

\* Model fitting, started from a freshly constructed object or from one whose
\* elite sample is selected.
InitFit == InitProbOpt \/ InitSelected

\* update_probs and find_sample_order(self.parent), in any order and any
\* number of times; a call runs to its end before the next is made.
NextFit ==
    \/ /\ pc = "idle"
       /\ update_probs
    \/ find_sample_order_call(parent)
    \/ find_sample_order_pass
    \/ find_sample_order_return

\* The loop of find_sample_order runs on, as in SpecProbOpt.
SpecFit ==
    /\ InitFit
    /\ [][NextFit]_vars
    /\ WF_vars(find_sample_order_pass)
    /\ WF_vars(find_sample_order_return)

RECURSIVE find_sample_order_loop(_, _, _)
\* The while loop of find_sample_order run to its end from the given
\* sample_order and last; like the loop, it has no end where the loop has
\* none.
find_sample_order_loop(par, order, lst) ==
    IF Len(order) < Len(par) + 1
    THEN find_sample_order_loop(par, order \o lst, Inds(par, lst))
    ELSE order

\* Mutant of find_sample_order: the positions in index order.
find_sample_order_by_index(par) == [k \in 1 .. (Len(par) + 1) |-> k - 1]

\* The value find_sample_order(par) returns to generate_new_sample.
find_sample_order(par) == find_sample_order_loop(par, <<>>, <<0>>)

\* The uniform draws of np.random.uniform the model tells apart: with elite
\* samples of up to three rows the probabilities are 0, 1/3, 1/2, 2/3 and 1.
Draws == {Frac(0, 1), Frac(1, 2)}

\* The sample sizes generate_new_sample is called with.
SampleSizes == {1, 2}

\* new_sample[np.where(rand_sample[:, 0] < self.probs[0, 0])[0], 0] = 1 on
\* the zero matrix of k rows.
FirstBit(rand, k) ==
    [r \in 1 .. k |-> [c \in 1 .. length |->
        IF c = 1 /\ FracLT(At(rand[r], 0), At(At(probs, 0), 0)) THEN 1 ELSE 0]]

\* One pass of generate_new_sample's for loop: column i of every row is set
\* to 1 where the row's draw is below the probability its bit at
\* self.parent[i - 1] selects.
SampleColumn(sample, rand, i) ==
    [r \in 1 .. Len(sample) |->
        IF FracLT(At(rand[r], i), At(At(probs, At(sample[r], At(parent, i - 1))), i))
        THEN [sample[r] EXCEPT ![i + 1] = 1]
        ELSE sample[r]]

RECURSIVE SampleLoop(_, _, _)
\* The for loop of generate_new_sample over the rest of the sample order.
SampleLoop(sample, rand, order) ==
    IF order = <<>> THEN sample
    ELSE SampleLoop(SampleColumn(sample, rand, Head(order)), rand, Tail(order))

\* generate_new_sample(k): the call draws the matrix rand_sample and returns
\* new_sample; no attribute of the object changes.  When self.probs is not a
\* two-dimensional array, self.probs[0, 0] raises IndexError and nothing is
\* returned.
generate_new_sample(k) ==
    /\ pc = "idle"
    /\ called' = "generate_new_sample"
    /\ arg' = k
    /\ IF probs_ndim # 2
       THEN /\ raised' = "IndexError"
            /\ UNCHANGED <<rand_sample, new_sample, sample_order>>
       ELSE /\ raised' = ""
            /\ \E rand \in [1 .. k -> [1 .. length -> Draws]] :
                  /\ rand_sample' = rand
                  /\ \E order \in {find_sample_order(parent)} :
                        /\ sample_order' = order
                        /\ new_sample' = SampleLoop(FirstBit(rand, k), rand, Tail(order))
    /\ last' = <<>>
    /\ UNCHANGED <<length, fitness_fn, state, fitness, neighbors, best>>
    /\ UNCHANGED <<keep_sample, probs, probs_ndim, parent, pc>>
    /\ UNCHANGED geneticVars

RECURSIVE AsNumber(_)
\* The bit vector read as a binary number, first bit most significant.
AsNumber(row) == IF row = <<>> THEN 0 ELSE 2 * AsNumber(SubSeq(row, 1, Len(row) - 1)) + row[Len(row)]

\* Sampling starts from a freshly constructed object or from one whose elite
\* sample is selected; the populations are taken with their rows in
\* ascending order.
InitSample ==
    \/ InitProbOpt
    \/ \E len \in 1 .. MaxLen :
          \E K \in {S \in SeqsOf(BitVectors(len), 1, MaxElite) :
                       \A k \in 1 .. (Len(S) - 1) : AsNumber(S[k]) <= AsNumber(S[k + 1])} :
             Selected(len, K)

\* Fitting and sampling: the sample of one call of generate_new_sample is
\* followed in each behaviour.
NextSample ==
    \/ /\ pc = "idle"
       /\ new_sample = <<>>
       /\ update_probs
    \/ /\ new_sample = <<>>
       /\ \E k \in SampleSizes : generate_new_sample(k)

SpecSample == InitSample /\ [][NextSample]_vars

\* The keep fractions select_keep_sample is called with when elite selection
\* is examined on its own: values of (0, 1] that put the percentile on an
\* order statistic and between two of them.
KeepFractions == {Frac(1, 10), Frac(1, 4), Frac(1, 2), Frac(3, 4), Frac(1, 1)}

\* A freshly constructed ProbOpt object of 1..MaxWidth positions.
InitSelect ==
    /\ \E len \in 1 .. MaxWidth, fn \in FitnessFns : BitStringInit(len, fn) /\ ProbOptInit(len)
    /\ GeneticInit
    /\ NoCallYet

\* Elite selection: the object gets its population once, generated or handed
\* in, and select_keep_sample is called any number of times.
NextSelect ==
    \/ /\ population = <<>>
       /\ \E pop \in Populations : set_population(pop)
    \/ /\ population = <<>>
       /\ \E pop_size \in 1 .. MaxPop : create_population(pop_size)
    \/ \E keep_pct \in KeepFractions : select_keep_sample(keep_pct)

SpecSelect == InitSelect /\ [][NextSelect]_vars

\* The public operations of a ProbOpt object, in any order: the object gets
\* its population once, generated or handed in, and a returned sample is
\* followed once; the other operations run any number of times.
NextPublic ==
    \/ /\ population = <<>>
       /\ \E pop_size \in 1 .. MaxMembers : create_population(pop_size)
    \/ /\ population = <<>>
       /\ \E pop \in SeqsOf(BitVectors(length), 1, MaxMembers) : set_population(pop)
    \/ calculate_probs
    \/ \E keep_pct \in KeepPcts : select_keep_sample(keep_pct)
    \/ update_probs
    \/ /\ new_sample = <<>>
       /\ \E k \in SampleSizes : generate_new_sample(k)

\* A ProbOpt object of 1..MaxWidth positions under its public operations.
SpecPublic == InitSelect /\ [][NextPublic]_vars

\* Largest number of positions of a parent array handed to find_sample_order.
MaxNodes == 4

\* Every array that gives each of the positions 1..len-1 a parent in 0..len-1,
\* a tree or not.
ParentArrays(len) == [1 .. (len - 1) -> Range(len)]

\* find_sample_order as a function of its argument: on a freshly constructed
\* object it is called with any parent array over the object's positions.
NextOrder ==
    \/ \E par \in ParentArrays(length) : find_sample_order_call(par)
    \/ find_sample_order_pass
    \/ find_sample_order_return

\* A freshly constructed ProbOpt object of 1..MaxNodes positions.
InitOrder ==
    /\ \E len \in 1 .. MaxNodes : BitStringInit(len, "OneMax") /\ ProbOptInit(len)
    /\ GeneticInit
    /\ NoCallYet

SpecOrder == InitOrder /\ [][NextOrder]_vars

\* ------------------------------------------------- claims on BitString
\* The positions at which two vectors of equal length differ.
DiffPositions(a, b) == {i \in Range(Len(a)) : At(a, i) # At(b, i)}

\* C5 (as stated): in every reachable state of a BitString object, from
\* construction onward, the stored fitness equals the evaluator's result on
\* the stored bits.
C5_FitnessAlwaysCurrent == fitness = evaluate(fitness_fn, state)

\* C5 (amended): every reset and every set_state leaves the stored fitness
\* equal to the evaluator's result on the stored bits, and once they are
\* equal every later operation keeps them equal; only the constructor's
\* placeholder fitness 0 can differ from the evaluator's value.
C5_FitnessCurrentOnceSet ==
    [][/\ (called' \in {"reset", "set_state"} => fitness' = evaluate(fitness_fn', state'))
       /\ (fitness = evaluate(fitness_fn, state) => fitness' = evaluate(fitness_fn', state'))]_vars

\* C5 witness: a set_state call has stored bits whose fitness is not the
\* constructor's placeholder, and the stored fitness is the evaluator's value.
C5_Witness ==
    /\ called = "set_state"
    /\ length = MaxLen
    /\ evaluate(fitness_fn, state) > 0
    /\ fitness = evaluate(fitness_fn, state)

\* C6 (as stated, for call sequences in which find_neighbors has run): the
\* vector best_neighbor returns differs from the current bits in exactly one
\* position, its fitness is the maximum over all single-bit flips of the
\* current bits, and no flip at a lower position reaches that fitness.
C6_BestNeighborOfCurrent ==
    (called = "best_neighbor" /\ neighbors # <<>>) =>
        /\ raised = ""
        /\ Len(best) = Len(state)
        /\ \E i \in Range(length) :
              /\ DiffPositions(best, state) = {i}
              /\ \A j \in Range(length) :
                    evaluate(fitness_fn, Flip(state, j)) <= evaluate(fitness_fn, best)
              /\ \A j \in Range(i) :
                    evaluate(fitness_fn, Flip(state, j)) < evaluate(fitness_fn, best)

\* C7: find_neighbors produces exactly length vectors, the i-th of which has
\* the opposite bit at position i and the current bits everywhere else, and
\* it leaves the current bits and the stored fitness unchanged.
C7_NeighborsAreSingleFlips ==
    [][called' = "find_neighbors" =>
          /\ state' = state
          /\ fitness' = fitness
          /\ raised' = ""
          /\ Len(neighbors') = length
          /\ \A i \in Range(length) :
                /\ Len(At(neighbors', i)) = Len(state)
                /\ DiffPositions(At(neighbors', i), state) = {i}
                /\ At(At(neighbors', i), i) = 1 - At(state, i)]_vars

\* C7 witness: find_neighbors has run on a longest bitstring holding both
\* bit values, and the stored list has one neighbor per position.
C7_Witness ==
    /\ called = "find_neighbors"
    /\ length = MaxLen
    /\ Len(neighbors) = MaxLen
    /\ \E i, j \in Range(length) : At(state, i) = 0 /\ At(state, j) = 1

\* --------------------------------------------------- claims on Genetic
\* C8 (as stated): set_state fails with DimensionMismatch when the vector's
\* length differs from the declared length, and set_population fails with
\* DimensionMismatch when any member's length differs from it.
C8_DimensionMismatchRaised ==
    /\ (called = "set_state" /\ Len(arg) # length) => raised = "DimensionMismatch"
    /\ (called = "set_population" /\ \E k \in 1 .. Len(arg) : Len(arg[k]) # length)
          => raised = "DimensionMismatch"

\* C9 (as stated, for a population that has members): with total fitness 0
\* calculate_probs fails with DegenerateDistribution and stores no vector;
\* with a positive total the stored probabilities are fitness / total and
\* sum to 1.
C9_DegenerateDistributionRaised ==
    (called = "calculate_probs" /\ Len(population) > 0) =>
        IF SumSeq(pop_fitness) = 0
        THEN raised = "DegenerateDistribution"
        ELSE /\ raised = ""
             /\ Len(probs) = Len(pop_fitness)
             /\ \A k \in 1 .. Len(probs) :
                   FracEQ(probs[k], Frac(pop_fitness[k], SumSeq(pop_fitness)))
             /\ SumSeq([k \in 1 .. Len(probs) |-> probs[k].num]) = probs[1].den

\* --------------------------------------------- claims on model fitting
RECURSIVE Climbs(_, _, _)
\* Following parent links from position i reaches position 0 within n links.
Climbs(par, i, n) ==
    IF i = 0 THEN TRUE
    ELSE IF n = 0 THEN FALSE
    ELSE Climbs(par, At(par, i - 1), n - 1)

\* par gives each of the positions 1..len-1 one parent in 0..len-1, and the
\* parent links of every position lead to position 0 without a repetition
\* (a walk of len links or more repeats a position).
IsTreeRootedAt0(par, len) ==
    /\ Len(par) = len - 1
    /\ \A k \in 1 .. Len(par) : par[k] \in Range(len)
    /\ \A i \in Range(len) : Climbs(par, i, len - 1)

\* C1: after update_probs has run on a non-empty elite sample of bit vectors
\* of length L >= 2, the stored parent array has one entry for each position
\* 1..L-1, every entry lies in 0..L-1, and the parent links form a tree
\* rooted at position 0.
C1_ParentIsTree ==
    (called = "update_probs" /\ keep_sample # <<>> /\ length >= 2) =>
        /\ raised = ""
        /\ IsTreeRootedAt0(parent, length)

\* C1 witness: update_probs has run on a sample of the longest vectors in
\* which one pair of columns is independent (its edge is absent from the
\* graph) and another pair is not, and has stored a parent array of
\* MaxLen - 1 entries.
C1_Witness ==
    /\ called = "update_probs"
    /\ raised = ""
    /\ length = MaxLen
    /\ Len(parent) = MaxLen - 1
    /\ \E e \in Pairs(length) : MIZero(MIStats(keep_sample, length)[e], Len(keep_sample))
    /\ \E e \in Pairs(length) : ~MIZero(MIStats(keep_sample, length)[e], Len(keep_sample))

\* The rows of K with bit v at position c.
RowsWith(K, c, v) == {r \in 1 .. Len(K) : At(K[r], c) = v}

\* C4: after update_probs on an elite sample, probs[0,0] and probs[1,0] both
\* equal the fraction of elite rows with bit 0 set; for every position i >= 1
\* and v in {0,1}, probs[v,i] is the fraction of rows with bit i set among
\* the rows whose bit at parent[i] is v, and 0 when there is no such row;
\* every entry lies in [0,1].
C4_ProbsAreConditionalFrequencies ==
    (called = "update_probs" /\ keep_sample # <<>>) =>
        /\ raised = ""
        /\ \A v \in {0, 1} :
              /\ At(At(probs, v), 0).den > 0
              /\ At(At(probs, v), 0).num * Len(keep_sample)
                    = Cardinality(RowsWith(keep_sample, 0, 1)) * At(At(probs, v), 0).den
              /\ \A i \in 1 .. (length - 1) :
                    LET given == RowsWith(keep_sample, At(parent, i - 1), v)
                        p == At(At(probs, v), i)
                    IN  /\ p.den > 0
                        /\ IF given = {} THEN p.num = 0
                           ELSE p.num * Cardinality(given)
                                   = Cardinality(given \cap RowsWith(keep_sample, i, 1)) * p.den
        /\ \A v \in {0, 1}, i \in Range(length) :
              /\ 0 <= At(At(probs, v), i).num
              /\ At(At(probs, v), i).num <= At(At(probs, v), i).den

\* C4 witness: update_probs has stored, for one position, a probability that
\* is 0 because no elite row has the parent bit, and, for another position,
\* two different probabilities for the two values of the parent bit.
C4_Witness ==
    /\ called = "update_probs"
    /\ raised = ""
    /\ \E i \in 1 .. (length - 1), v \in {0, 1} :
          RowsWith(keep_sample, At(parent, i - 1), v) = {}
    /\ \E i \in 1 .. (length - 1) :
          ~FracEQ(At(At(probs, 0), i), At(At(probs, 1), i))

\* The while loop of find_sample_order can only spin: its condition holds and
\* the list last, from which alone sample_order grows, is empty.
Stuck == pc = "while" /\ last = <<>> /\ WhileCondition

\* C10 (as stated): the loop of find_sample_order(self.parent) never reaches
\* a state in which the frontier is empty while fewer than L positions have
\* been ordered.
C10_FrontierNonEmptyBeforeL ==
    ~(pc = "while" /\ last = <<>> /\ Len(sample_order) < length)

\* C10 (amended): for the parent array a freshly constructed object holds
\* and for every one update_probs stores, the loop of
\* find_sample_order(self.parent) never has an empty frontier while its
\* condition len(sample_order) < len(parent) + 1 holds, and every call
\* returns.
C10_SampleOrderTerminates ==
    /\ [](~Stuck)
    /\ (pc = "while") ~> (pc = "idle" /\ Len(sample_order) = Len(parent) + 1)

\* C10 witness: find_sample_order(self.parent) has returned the order of a
\* stored tree of the largest size that is not the star around position 0.
C10_Witness ==
    /\ called = "find_sample_order"
    /\ pc = "idle"
    /\ length = MaxLen
    /\ Len(parent) = MaxLen - 1
    /\ \E k \in 1 .. Len(parent) : parent[k] # 0
    /\ Len(sample_order) = MaxLen

\* ----------------------------------------- claims on generate_new_sample
\* C3: for a fitted model (probs, parent) and any matrix of draws,
\* generate_new_sample(k) returns k vectors of bits in which bit 0 of a
\* candidate is 1 iff its draw at column 0 is below probs[0,0], and every
\* other bit i is 1 iff the candidate's draw at column i is below
\* probs[v,i], v being the candidate's bit at parent[i] in the returned
\* vector.
C3_SampleFollowsModel ==
    (called = "generate_new_sample" /\ Len(parent) = length - 1) =>
        /\ raised = ""
        /\ Len(new_sample) = arg
        /\ \A r \in 1 .. Len(new_sample) :
              /\ Len(new_sample[r]) = length
              /\ \A i \in Range(length) : At(new_sample[r], i) \in {0, 1}
              /\ At(new_sample[r], 0) = 1
                    <=> FracLT(At(rand_sample[r], 0), At(At(probs, 0), 0))
              /\ \A i \in 1 .. (length - 1) :
                    At(new_sample[r], i) = 1
                       <=> FracLT(At(rand_sample[r], i),
                                  At(At(probs, At(new_sample[r], At(parent, i - 1))), i))

\* C3 witness: generate_new_sample(2) has returned two vectors of the
\* largest length from a model in which some position i has a parent with a
\* larger index and two different probabilities, the two candidates have the
\* same draw at column i, and their bits at i differ with their parent bits.
C3_Witness ==
    /\ called = "generate_new_sample"
    /\ arg = 2
    /\ length = MaxLen
    /\ Len(parent) = length - 1
    /\ \E i \in 1 .. (length - 1) :
          /\ At(parent, i - 1) > i
          /\ ~FracEQ(At(At(probs, 0), i), At(At(probs, 1), i))
          /\ At(rand_sample[1], i) = At(rand_sample[2], i)
          /\ At(new_sample[1], At(parent, i - 1)) # At(new_sample[2], At(parent, i - 1))
          /\ At(new_sample[1], i) # At(new_sample[2], i)

\* ------------------------------------------- claims on find_sample_order
\* The 0-based place of position x in the order o.
PlaceIn(o, x) == CHOOSE k \in Range(Len(o)) : At(o, k) = x

RECURSIVE Depth(_, _)
\* The number of parent links from position i to position 0 in a tree.
Depth(par, i) == IF i = 0 THEN 0 ELSE 1 + Depth(par, At(par, i - 1))

\* C2: for a parent array that is a tree rooted at position 0 over L
\* positions, find_sample_order returns a sequence that starts with 0, holds
\* each position 0..L-1 exactly once, lists every other position after its
\* parent, and lists the positions level by level.
C2_OrderIsBreadthFirst ==
    (called = "find_sample_order" /\ pc = "idle" /\ IsTreeRootedAt0(arg, Len(arg) + 1)) =>
        /\ Len(sample_order) = Len(arg) + 1
        /\ At(sample_order, 0) = 0
        /\ \A x \in Range(Len(arg) + 1) :
              Cardinality({k \in Range(Len(sample_order)) : At(sample_order, k) = x}) = 1
        /\ \A x \in 1 .. Len(arg) :
              PlaceIn(sample_order, At(arg, x - 1)) < PlaceIn(sample_order, x)
        /\ \A k \in 1 .. (Len(sample_order) - 1) :
              Depth(arg, At(sample_order, k - 1)) <= Depth(arg, At(sample_order, k))

\* C2 witness: find_sample_order has returned the order of a tree over the
\* largest number of positions in which a position has a parent with a larger
\* index and the tree has three levels.
C2_Witness ==
    /\ called = "find_sample_order"
    /\ pc = "idle"
    /\ Len(arg) = MaxNodes - 1
    /\ IsTreeRootedAt0(arg, MaxNodes)
    /\ \E x \in 1 .. Len(arg) : At(arg, x - 1) > x
    /\ \E x \in 1 .. Len(arg) : Depth(arg, x) = 2
    /\ Len(sample_order) = MaxNodes

\* ------------------------------------------ claims on select_keep_sample
\* The positions of the population's members whose fitness is at least theta.
AtOrAbove(theta) == {k \in 1 .. Len(pop_fitness) : ~FracLT(Frac(pop_fitness[k], 1), theta)}

\* C11: for a non-empty population and a keep fraction in (0,1],
\* select_keep_sample returns normally and stores a non-empty elite sample
\* that holds every member whose fitness is the population's maximum and no
\* member whose fitness is below the percentile threshold (it holds, in
\* population order, as many rows as there are members at or above it).
C11_EliteHoldsTheBest ==
    (called = "select_keep_sample" /\ population # <<>>) =>
        /\ raised = ""
        /\ keep_sample # <<>>
        /\ \A k \in 1 .. Len(population) :
              pop_fitness[k] = MaxOf({pop_fitness[m] : m \in 1 .. Len(pop_fitness)})
                 => \E r \in 1 .. Len(keep_sample) : keep_sample[r] = population[k]
        /\ \A r \in 1 .. Len(keep_sample) :
              /\ \E k \in 1 .. Len(population) : population[k] = keep_sample[r]
              /\ ~FracLT(Frac(evaluate(fitness_fn, keep_sample[r]), 1),
                         Percentile(pop_fitness, arg))
        /\ Len(keep_sample) = Cardinality(AtOrAbove(Percentile(pop_fitness, arg)))

\* C11 witness: select_keep_sample has run with a keep fraction below 1 on a
\* population of MaxPop members, the threshold lies strictly between two
\* fitness values, a member below it is left out and two members with the
\* maximum fitness are kept.
C11_Witness ==
    /\ called = "select_keep_sample"
    /\ raised = ""
    /\ Len(population) = MaxPop
    /\ FracLT(arg, Frac(1, 1))
    /\ Percentile(pop_fitness, arg).num % Percentile(pop_fitness, arg).den # 0
    /\ Len(keep_sample) < Len(population)
    /\ Len(keep_sample) >= 2

\* ------------------------------------------------- claims on self.probs
\* C12: on a ProbOpt object, after any sequence of its public operations,
\* the probs attribute generate_new_sample reads is a 2 x length table, so
\* the call returns; the inherited calculate_probs does not replace the
\* table with the vector of selection probabilities.
C12_ProbsStaysTable ==
    /\ called = "calculate_probs" => probs_ndim = 2
    /\ called = "generate_new_sample" =>
          /\ raised = ""
          /\ probs_ndim = 2
          /\ Len(probs) = 2
          /\ \A j \in 1 .. 2 : Len(probs[j]) = length

=============================================================================
